---- MODULE Spec2Model ----
(***************************************************************************)
(* vmware_guest_network: one run of PyVmomiHelper.reconfigure_vm_network   *)
(* against one virtual machine.  A dict is a function whose DOMAIN is the  *)
(* set of keys it holds; a string the code inspects character by character *)
(* (a MAC address) is a sequence of one-character strings.                 *)
(***************************************************************************)
EXTENDS Integers, Sequences, FiniteSets, TLC

VARIABLES
    params,            \* module.params: gather_network_facts, networks
    hardware_device,   \* vm_obj.config.hardware.device, as the backend holds it
    powerState,        \* vm_obj.runtime.powerState
    network_list,      \* what sanitize_network_params returned
    idx,               \* position of the for loop of line 371 (entries entered)
    nic_devices,       \* matched adapters the loop of line 394 still has to visit
    change_detected,   \* self.change_detected
    deviceChange,      \* self.config_spec.deviceChange
    task,              \* outcome of ReconfigVM_Task / wait_for_task, "none" before
    results,           \* what the run hands to exit_json / fail_json
    pc                 \* position of the run

vars == <<params, hardware_device, powerState, network_list, idx, nic_devices,
          change_detected, deviceChange, task, results, pc>>

\* ---------------------------------------------------------------- bounds
MaxDevices == 2
MaxNetworks == 2

\* ------------------------------------------------------------- constants
\* self.nic_device_type: device_type keyword -> vim device class
nic_device_type ==
    [pcnet32 |-> "VirtualPCNet32", vmxnet2 |-> "VirtualVmxnet2",
     vmxnet3 |-> "VirtualVmxnet3", e1000 |-> "VirtualE1000",
     e1000e |-> "VirtualE1000e", sriov |-> "VirtualSriovEthernetCard"]

valid_state == {"new", "present", "absent"}

\* the datacenter the run is scoped to (params['datacenter'], its default)
datacenter == "ha-datacenter"

\* isinstance(device, cls): none of the six adapter classes derives from another
isinstance(device, cls) == device.type = cls

\* str.lower() on the state keywords the inputs use
lower(s) ==
    CASE s = "New" -> "new"
      [] s = "Present" -> "present"
      [] s = "ABSENT" -> "absent"
      [] OTHER -> s

\* bool(v) of a Python bool
bool(v) == IF v THEN TRUE ELSE FALSE

\* dict.get(key, default)
get(d, key, default) == IF key \in DOMAIN d THEN d[key] ELSE default

\* ------------------------------------------------------------ MAC strings
HexDigit == {"0", "1", "2", "3", "4", "5", "6", "7", "8", "9",
             "a", "b", "c", "d", "e", "f"}

\* re.compile('[0-9a-f]{2}([-:])[0-9a-f]{2}(\\1[0-9a-f]{2}){4}$').match(mac_addr):
\* anchored at the start; '$' matches at the end or before one final newline
is_valid_mac_addr(mac_addr) ==
    /\ \/ Len(mac_addr) = 17
       \/ Len(mac_addr) = 18 /\ mac_addr[18] = "\n"
    /\ \A i \in 1..17 : i % 3 # 0 => mac_addr[i] \in HexDigit
    /\ mac_addr[3] \in {"-", ":"}
    /\ \A i \in {6, 9, 12, 15} : mac_addr[i] = mac_addr[3]

Digits == <<"1", "2", "3", "4", "5", "6", "7", "8", "9">>

\* the address of the adapter with device key k: 00:50:56:00:00:0k
MacOf(k) ==
    <<"0", "0", ":", "5", "0", ":", "5", "6", ":",
      "0", "0", ":", "0", "0", ":", "0", Digits[k]>>

\* a well-formed address no adapter has
MacFree ==
    <<"0", "0", ":", "5", "0", ":", "5", "6", ":",
      "4", "4", ":", "5", "5", ":", "7", "7">>

\* five octets only
MacShort ==
    <<"0", "0", ":", "5", "0", ":", "5", "6", ":", "1", "1", ":", "2", "2">>

Labels == <<"Network adapter 1", "Network adapter 2", "Network adapter 3",
            "Network adapter 4", "Network adapter 5", "Network adapter 6",
            "Network adapter 7", "Network adapter 8", "Network adapter 9">>

\* ------------------------------------------------------ backend inventory
\* vim.Network objects of the content, in the order find_obj / get_all_objs
\* walk them, each with the name of its parent datacenter.  A distributed
\* portgroup is a vim.Network too.
content_networks ==
    << [name |-> "VM Network", datacenter |-> "dc-other"],
       [name |-> "VM Network", datacenter |-> "ha-datacenter"],
       [name |-> "Lab Network", datacenter |-> "ha-datacenter"],
       [name |-> "pg-remote", datacenter |-> "dc-other"],
       [name |-> "pg-prod", datacenter |-> "ha-datacenter"],
       [name |-> "10", datacenter |-> "ha-datacenter"],
       [name |-> "pg-vlan10", datacenter |-> "ha-datacenter"],
       [name |-> "Remote Network", datacenter |-> "dc-other"] >>

\* vim.dvs.DistributedVirtualPortgroup objects of the content.  vlanId is
\* "none" where defaultPortConfig.vlan.vlanId is no int (a trunk range)
content_dvps ==
    << [name |-> "pg-remote", vlanId |-> "10", dvswitch |-> "dvs0",
        datacenter |-> "dc-other"],
       [name |-> "pg-prod", vlanId |-> "none", dvswitch |-> "dvs1",
        datacenter |-> "ha-datacenter"],
       [name |-> "10", vlanId |-> "20", dvswitch |-> "dvs0",
        datacenter |-> "ha-datacenter"],
       [name |-> "pg-vlan10", vlanId |-> "10", dvswitch |-> "dvs1",
        datacenter |-> "ha-datacenter"] >>

\* ---------------------------------------------------------------- lookups
\* Optional values (a Python None or an object) are sequences of length 0 or 1.

\* find_obj(content, [vim.Network], name): the first object of that name
find_obj(name) ==
    LET HasName(obj) == obj.name = name
        obj_list == SelectSeq(content_networks, HasName)
    IN  IF obj_list = <<>> THEN <<>> ELSE <<obj_list[1]>>

\* get_network_by_name: a network of that name exists in the datacenter
get_network_by_name(name) ==
    LET result == find_obj(name)
    IN  IF result = <<>> THEN FALSE
        ELSE IF result[1].datacenter # datacenter
             THEN \E i \in 1..Len(content_networks) :
                      /\ content_networks[i].datacenter = datacenter
                      /\ content_networks[i].name = name
             ELSE TRUE

\* the device is one of the six adapter classes (the inner loops of
\* get_network_device_by_mac and get_network_device_by_label)
IsNic(device) ==
    \E device_type \in DOMAIN nic_device_type :
        isinstance(device, nic_device_type[device_type])

\* get_network_device_by_mac: the inner break leaves the outer loop running,
\* so the last adapter with that address is the one returned
get_network_device_by_mac(devices, mac) ==
    LET IsHit(device) == IsNic(device) /\ device.macAddress = mac
        found == SelectSeq(devices, IsHit)
    IN  IF found = <<>> THEN <<>> ELSE <<found[Len(found)]>>

\* get_network_device_by_label: likewise the last adapter with that label
get_network_device_by_label(devices, device_label) ==
    LET IsHit(device) == IsNic(device) /\ device.label = device_label
        found == SelectSeq(devices, IsHit)
    IN  IF found = <<>> THEN <<>> ELSE <<found[Len(found)]>>

\* get_network_devices_by_type stopping at the first device of that class
get_network_devices_by_type_first(devices, device_type) ==
    LET IsHit(device) == isinstance(device, nic_device_type[device_type])
        found == SelectSeq(devices, IsHit)
    IN  IF found = <<>> THEN <<>> ELSE <<found[1]>>

\* get_network_devices_by_type: every device of that class, in list order
get_network_devices_by_type(devices, device_type) ==
    LET IsHit(device) == isinstance(device, nic_device_type[device_type])
    IN  SelectSeq(devices, IsHit)

\* MatchDevices with the label consulted before the address
MatchDevices_label_first(devices, network) ==
    LET by_label ==
            IF "label" \in DOMAIN network
            THEN get_network_device_by_label(devices, network.label)
            ELSE <<>>
        by_mac ==
            IF "mac" \in DOMAIN network /\ Len(by_label) = 0
            THEN get_network_device_by_mac(devices, network.mac)
            ELSE by_label
    IN  IF "device_type" \in DOMAIN network /\ Len(by_mac) = 0
        THEN get_network_devices_by_type(devices, network.device_type)
        ELSE by_mac

\* MatchDevices with the key of highest precedence alone deciding
MatchDevices_first_key_only(devices, network) ==
    IF "mac" \in DOMAIN network
    THEN get_network_device_by_mac(devices, network.mac)
    ELSE IF "label" \in DOMAIN network
    THEN get_network_device_by_label(devices, network.label)
    ELSE IF "device_type" \in DOMAIN network
    THEN get_network_devices_by_type(devices, network.device_type)
    ELSE <<>>

\* lines 380-390 of get_network_config_spec: mac, then label if nothing was
\* found so far, then device_type if nothing was found so far
MatchDevices(devices, network) ==
    LET by_mac ==
            IF "mac" \in DOMAIN network
            THEN get_network_device_by_mac(devices, network.mac)
            ELSE <<>>
        by_label ==
            IF "label" \in DOMAIN network /\ Len(by_mac) = 0
            THEN by_mac \o get_network_device_by_label(devices, network.label)
            ELSE by_mac
    IN  IF "device_type" \in DOMAIN network /\ Len(by_label) = 0
        THEN get_network_devices_by_type(devices, network.device_type)
        ELSE by_label

\* match_error without the test for an entry that has no match key
match_error_not_found_only(network, found) ==
    IF Len(found) = 0 THEN "AdapterNotFound" ELSE ""

\* match_error without the failure of an entry that matched nothing
match_error_keys_only(network, found) ==
    IF DOMAIN network \cap {"mac", "label", "device_type"} = {}
    THEN "MissingMatchKey" ELSE ""

\* lines 391-393 and 421-422: the msg of the fail_json a present/absent entry
\* runs into once its adapters were looked up, "" if it goes on to visit them
match_error(network, found) ==
    IF DOMAIN network \cap {"mac", "label", "device_type"} = {}
    THEN "MissingMatchKey"
    ELSE IF Len(found) = 0 THEN "AdapterNotFound"
    ELSE ""

\* ------------------------------------------------------------------ facts
\* the nic_type get_network_facts reports for a device, "none" if it is no adapter
nic_type_of(nic) ==
    IF isinstance(nic, "VirtualPCNet32") THEN "PCNet32"
    ELSE IF isinstance(nic, "VirtualVmxnet2") THEN "VMXNET2"
    ELSE IF isinstance(nic, "VirtualVmxnet3") THEN "VMXNET3"
    ELSE IF isinstance(nic, "VirtualE1000") THEN "E1000"
    ELSE IF isinstance(nic, "VirtualE1000e") THEN "E1000E"
    ELSE IF isinstance(nic, "VirtualSriovEthernetCard") THEN "SriovEthernetCard"
    ELSE "none"

\* the loop of get_network_facts from device i on, nic_index being the next key
RECURSIVE FactsFrom(_, _, _, _)
FactsFrom(devices, i, nic_index, network_facts) ==
    IF i > Len(devices) THEN network_facts
    ELSE LET nic == devices[i]
         IN  IF nic_type_of(nic) # "none"
             THEN FactsFrom(devices, i + 1, nic_index + 1,
                      network_facts @@
                      (nic_index :>
                          [device_type |-> nic_type_of(nic),
                           label |-> nic.label,
                           name |-> nic.summary,
                           mac_addr |-> nic.macAddress,
                           allow_guest_ctl |-> nic.allowGuestControl,
                           connected |-> nic.connected,
                           start_connected |-> nic.startConnected]))
             ELSE FactsFrom(devices, i + 1, nic_index, network_facts)

\* get_network_facts with nic_index following the place in the device list
get_network_facts_by_place(devices) ==
    LET places == {i \in 1..Len(devices) : nic_type_of(devices[i]) # "none"}
    IN  [nic_index \in {i - 1 : i \in places} |->
            LET nic == devices[nic_index + 1]
            IN  [device_type |-> nic_type_of(nic),
                 label |-> nic.label,
                 name |-> nic.summary,
                 mac_addr |-> nic.macAddress,
                 allow_guest_ctl |-> nic.allowGuestControl,
                 connected |-> nic.connected,
                 start_connected |-> nic.startConnected]]

\* get_network_facts(vm_obj): index -> snapshot of the adapter
get_network_facts(devices) == FactsFrom(devices, 1, 0, <<>>)

\* --------------------------------------------------------------- sanitize
\* A vlan value is [int |-> whether it is a Python int, str |-> its str()].

\* lines 340-352: the portgroup names this entry by VLAN ID, or by its name
dvp_matches(dvp, network) ==
    \/ /\ dvp.vlanId # "none"
       /\ dvp.vlanId = network.vlan.str
    \/ /\ "dvswitch_name" \in DOMAIN network
       /\ dvp.dvswitch = network.dvswitch_name
       /\ ~network.vlan.int /\ dvp.name = network.vlan.str
    \/ ~network.vlan.int /\ dvp.name = network.vlan.str

\* lines 337-354: the portgroups of the datacenter in scan order; the first
\* one a rule accepts gives the entry its name, none is "VLAN does not exist"
resolve_vlan(network) ==
    LET InScope(x) == x.datacenter = datacenter
        dvps == SelectSeq(content_dvps, InScope)
        Hit(dvp) == dvp_matches(dvp, network)
        hits == SelectSeq(dvps, Hit)
    IN  IF hits = <<>> THEN <<>> ELSE <<hits[1].name>>

\* sanitize_error without the check that the named network exists
sanitize_error_any_network(network) ==
    IF "state" \notin DOMAIN network \/ lower(network.state) \notin valid_state
    THEN "InvalidState"
    ELSE IF /\ lower(network.state) = "new"
            /\ "name" \notin DOMAIN network /\ "vlan" \notin DOMAIN network
    THEN "MissingNetworkReference"
    ELSE IF "vlan" \in DOMAIN network /\ resolve_vlan(network) = <<>>
    THEN "VlanNotFound"
    ELSE IF /\ "device_type" \in DOMAIN network
            /\ network.device_type \notin DOMAIN nic_device_type
    THEN "InvalidDeviceType"
    ELSE IF \/ "mac" \in DOMAIN network /\ ~is_valid_mac_addr(network.mac)
            \/ /\ "manual_mac" \in DOMAIN network
               /\ ~is_valid_mac_addr(network.manual_mac)
    THEN IF "mac" \in DOMAIN network /\ "manual_mac" \in DOMAIN network
         THEN "InvalidMacSyntax" ELSE "KeyError"
    ELSE ""

\* the msg of the fail_json (or the exception) one entry runs into in the body
\* of the loop of sanitize_network_params, "" if it passes
sanitize_error(network) ==
    IF "state" \notin DOMAIN network \/ lower(network.state) \notin valid_state
    THEN "InvalidState"
    ELSE IF /\ lower(network.state) = "new"
            /\ "name" \notin DOMAIN network /\ "vlan" \notin DOMAIN network
    THEN "MissingNetworkReference"
    ELSE IF "name" \in DOMAIN network /\ ~get_network_by_name(network.name)
    THEN "NetworkNotFound"
    ELSE IF "vlan" \in DOMAIN network /\ resolve_vlan(network) = <<>>
    THEN "VlanNotFound"
    ELSE IF /\ "device_type" \in DOMAIN network
            /\ network.device_type \notin DOMAIN nic_device_type
    THEN "InvalidDeviceType"
    ELSE IF \/ "mac" \in DOMAIN network /\ ~is_valid_mac_addr(network.mac)
            \/ /\ "manual_mac" \in DOMAIN network
               /\ ~is_valid_mac_addr(network.manual_mac)
    THEN \* the message formats network['mac'] and network['manual_mac']
         IF "mac" \in DOMAIN network /\ "manual_mac" \in DOMAIN network
         THEN "InvalidMacSyntax" ELSE "KeyError"
    ELSE ""

\* the entry as the loop body leaves it: the elif of line 336 is taken whenever
\* the name check of line 334 did not fail, and lines 343/348/351 store (or
\* overwrite) the name
sanitize_network(network) ==
    IF /\ sanitize_error(network) \in {"", "InvalidDeviceType", "InvalidMacSyntax",
                                       "KeyError"}
       /\ "vlan" \in DOMAIN network
    THEN ("name" :> resolve_vlan(network)[1]) @@ network
    ELSE network

\* the loop of sanitize_network_params from entry i on: the msg it stops with
\* ("" if it runs to the end) and params['networks'] as it leaves them
RECURSIVE SanitizeFrom(_, _)
SanitizeFrom(networks, i) ==
    IF i > Len(networks) THEN [msg |-> "", networks |-> networks]
    ELSE IF sanitize_error(networks[i]) # ""
         THEN [msg |-> sanitize_error(networks[i]),
               networks |-> [networks EXCEPT ![i] = sanitize_network(networks[i])]]
         ELSE SanitizeFrom([networks EXCEPT ![i] = sanitize_network(networks[i])],
                           i + 1)

sanitize_network_params(networks) == SanitizeFrom(networks, 1)

\* ------------------------------------------------------------------- plan
\* create_network_adapter with e1000 as the default class and adapters that
\* start disconnected by default
create_network_adapter_other_defaults(device_info) ==
    [type |-> nic_device_type[get(device_info, "device_type", "e1000")],
     key |-> 0,
     label |-> "",
     summary |-> device_info.name,
     startConnected |-> bool(get(device_info, "start_connected", FALSE)),
     allowGuestControl |-> TRUE,
     connected |-> bool(get(device_info, "connected", TRUE)),
     addressType |-> IF "manual_mac" \in DOMAIN device_info
                     THEN "manual" ELSE "generated",
     macAddress |-> IF "manual_mac" \in DOMAIN device_info
                    THEN device_info.manual_mac ELSE <<>>]

\* create_network_adapter leaving the summary of the device unset
create_network_adapter_unnamed(device_info) ==
    [type |-> nic_device_type[get(device_info, "device_type", "vmxnet3")],
     key |-> 0,
     label |-> "",
     summary |-> "",
     startConnected |-> bool(get(device_info, "start_connected", TRUE)),
     allowGuestControl |-> TRUE,
     connected |-> bool(get(device_info, "connected", TRUE)),
     addressType |-> IF "manual_mac" \in DOMAIN device_info
                     THEN "manual" ELSE "generated",
     macAddress |-> IF "manual_mac" \in DOMAIN device_info
                    THEN device_info.manual_mac ELSE <<>>]

\* create_network_adapter with the mac key read as the address to assign
create_network_adapter_mac_key(device_info) ==
    [type |-> nic_device_type[get(device_info, "device_type", "vmxnet3")],
     key |-> 0,
     label |-> "",
     summary |-> device_info.name,
     startConnected |-> bool(get(device_info, "start_connected", TRUE)),
     allowGuestControl |-> TRUE,
     connected |-> bool(get(device_info, "connected", TRUE)),
     addressType |-> IF "mac" \in DOMAIN device_info
                     THEN "manual" ELSE "generated",
     macAddress |-> IF "mac" \in DOMAIN device_info
                    THEN device_info.mac ELSE <<>>]

\* create_network_adapter(device_info): the device of an add operation.  The
\* backend gives it its key, its label and, if generated, its address.
create_network_adapter(device_info) ==
    [type |-> nic_device_type[get(device_info, "device_type", "vmxnet3")],
     key |-> 0,
     label |-> "",
     summary |-> device_info.name,
     startConnected |-> bool(get(device_info, "start_connected", TRUE)),
     allowGuestControl |-> TRUE,
     connected |-> bool(get(device_info, "connected", TRUE)),
     addressType |-> IF "manual_mac" \in DOMAIN device_info
                     THEN "manual" ELSE "generated",
     macAddress |-> IF "manual_mac" \in DOMAIN device_info
                    THEN device_info.manual_mac ELSE <<>>]

\* line 408: the entry asks for an address the adapter does not have
wants_mac_change(nic_device, network) ==
    "manual_mac" \in DOMAIN network /\ nic_device.macAddress # network.manual_mac

\* lines 399-413: the fields of the entry that differ from the adapter
differs(nic_device, network) ==
    \/ /\ "start_connected" \in DOMAIN network
       /\ nic_device.startConnected # network.start_connected
    \/ "connected" \in DOMAIN network /\ nic_device.connected # network.connected
    \/ "name" \in DOMAIN network /\ nic_device.summary # network.name
    \/ wants_mac_change(nic_device, network)

\* lines 399-413: nic_device as the entry amends it
edit_device(nic_device, network) ==
    [nic_device EXCEPT
        !.startConnected = get(network, "start_connected", @),
        !.connected = get(network, "connected", @),
        !.summary = get(network, "name", @),
        !.addressType = IF wants_mac_change(nic_device, network)
                        THEN "manual" ELSE @,
        !.macAddress = get(network, "manual_mac", @)]

\* mac_change_allowed with only a running machine refused
mac_change_allowed_unless_on(state) == state # "poweredOn"

\* line 409: the power state in which an address may be reconfigured
mac_change_allowed(state) == state = "poweredOff"

\* appends_edit with no edit appended
appends_edit_never(detected, nic_device, network) == FALSE

\* appends_edit with every edit appended, changed or not
appends_edit_always(detected, nic_device, network) == TRUE

\* line 414: whether the edit of this adapter is appended
appends_edit(detected, nic_device, network) ==
    detected \/ differs(nic_device, network)

\* plan_absent with the adapter edited before it is removed
plan_absent_edit_first(nic_device, i) ==
    << [operation |-> "edit", index |-> i, device |-> nic_device],
       [operation |-> "remove", index |-> i, device |-> nic_device] >>

\* lines 416-420: the operations the i-th entry, an absent one, appends for a
\* matched adapter
plan_absent(nic_device, i) ==
    << [operation |-> "remove", index |-> i, device |-> nic_device] >>

\* changed_result reporting every submission as a change
changed_result_submitted(detected) == TRUE

\* changed_result reporting no change
changed_result_never(detected) == FALSE

\* lines 443 and 446: the changed of the result of a run that submitted
changed_result(detected) == detected

\* ---------------------------------------------------------------- backend
\* the message the backend attaches to a fault or a failed task
backend_msg == "A specified parameter was not correct"

RECURSIVE MaxKey(_, _)
MaxKey(devices, i) ==
    IF i > Len(devices) THEN 0
    ELSE LET rest == MaxKey(devices, i + 1)
         IN  IF devices[i].key > rest THEN devices[i].key ELSE rest

\* what one device change does to the device list when the backend applies it
apply_change(devices, change) ==
    IF change.operation = "add"
    THEN LET key == MaxKey(devices, 1) + 1
         IN  Append(devices,
                 [change.device EXCEPT
                     !.key = key,
                     !.label = Labels[key],
                     !.macAddress = IF change.device.addressType = "generated"
                                    THEN MacOf(key) ELSE @])
    ELSE IF change.operation = "edit"
    THEN [i \in 1..Len(devices) |->
             IF devices[i].key = change.device.key THEN change.device
             ELSE devices[i]]
    ELSE LET Other(device) == device.key # change.device.key
         IN  SelectSeq(devices, Other)

\* a successful ReconfigVM_Task: the device changes applied in order
RECURSIVE apply_spec(_, _, _)
apply_spec(devices, changes, i) ==
    IF i > Len(changes) THEN devices
    ELSE apply_spec(apply_change(devices, changes[i]), changes, i + 1)

\* hardware_device with the edits that are pending in the operation list
\* already made to the devices
RECURSIVE hardware_device_amended(_, _, _)
hardware_device_amended(devices, changes, i) ==
    IF i > Len(changes) THEN devices
    ELSE hardware_device_amended(
             IF changes[i].operation = "edit"
             THEN [k \in 1..Len(devices) |->
                      IF devices[k].key = changes[i].device.key
                      THEN changes[i].device ELSE devices[k]]
             ELSE devices,
             changes, i + 1)

\* devices_read with the devices as the pending edits amended them
devices_read_amended(devices, changes) ==
    hardware_device_amended(devices, changes, 1)

\* lines 227, 241 and 252: what vm.config.hardware.device gives a lookup while
\* operations are pending.  The property is read from the backend at every
\* access, so the amendments lines 400-412 made to the devices of an earlier
\* lookup are not in it.
devices_read(devices, changes) == devices

\* ---------------------------------------------------------------- actions
\* module.fail_json(msg=...): the result carries failed and msg only
fail_json(msg) == [failed |-> TRUE, msg |-> msg]

\* facts_only without the test for an empty list
facts_only_flag_alone(gather_network_facts, networks) == gather_network_facts

\* line 427: facts are gathered and nothing is reconfigured
facts_only(gather_network_facts, networks) ==
    gather_network_facts \/ Len(networks) = 0

\* line 425 and the test of line 427
Sanitize ==
    /\ pc = "start"
    /\ LET r == sanitize_network_params(params.networks)
       IN  /\ params' = [params EXCEPT !.networks = r.networks]
           /\ IF r.msg # ""
              THEN /\ pc' = "failed"
                   /\ results' = fail_json(<<r.msg>>)
                   /\ UNCHANGED network_list
              ELSE /\ network_list' = r.networks
                   /\ pc' = IF facts_only(params.gather_network_facts, r.networks)
                            THEN "facts" ELSE "planning"
                   /\ UNCHANGED results
    /\ UNCHANGED <<hardware_device, powerState, idx, nic_devices,
                   change_detected, deviceChange, task>>

\* line 428
GatherFactsOnly ==
    /\ pc = "facts"
    /\ results' = [changed |-> FALSE, failed |-> FALSE,
                   network_data |-> get_network_facts(hardware_device)]
    /\ pc' = "done"
    /\ UNCHANGED <<params, hardware_device, powerState, network_list, idx,
                   nic_devices, change_detected, deviceChange, task>>

\* lines 371-393 and 421-422: the next entry of network_list is entered
PlanNetwork ==
    /\ pc = "planning" /\ nic_devices = <<>> /\ idx < Len(network_list)
    /\ LET network == network_list[idx + 1]
           found == MatchDevices(devices_read(hardware_device, deviceChange),
                                 network)
       IN  IF lower(network.state) = "new"
           THEN /\ deviceChange' =
                       Append(deviceChange,
                              [operation |-> "add", index |-> idx + 1,
                               device |-> create_network_adapter(network)])
                /\ change_detected' = TRUE
                /\ idx' = idx + 1
                /\ UNCHANGED <<nic_devices, results, pc>>
           ELSE IF match_error(network, found) # ""
           THEN /\ pc' = "failed"
                /\ results' = fail_json(<<match_error(network, found)>>)
                /\ idx' = idx + 1
                /\ UNCHANGED <<nic_devices, change_detected, deviceChange>>
           ELSE /\ nic_devices' = found
                /\ idx' = idx + 1
                /\ UNCHANGED <<change_detected, deviceChange, results, pc>>
    /\ UNCHANGED <<params, hardware_device, powerState, network_list, task>>

\* lines 394-420: one matched adapter of the entry is visited
PlanDevice ==
    /\ pc = "planning" /\ nic_devices # <<>>
    /\ LET network == network_list[idx]
           nic_device == Head(nic_devices)
       IN  IF lower(network.state) = "present"
           THEN IF /\ wants_mac_change(nic_device, network)
                   /\ ~mac_change_allowed(powerState)
                THEN /\ pc' = "failed"
                     /\ results' = fail_json(<<"PowerStateViolation">>)
                     /\ change_detected' =
                            (change_detected \/
                             differs(nic_device,
                                     [k \in DOMAIN network \ {"manual_mac"} |->
                                         network[k]]))
                     /\ UNCHANGED <<nic_devices, deviceChange>>
                ELSE /\ change_detected' =
                            (change_detected \/ differs(nic_device, network))
                     /\ deviceChange' =
                            IF appends_edit(change_detected, nic_device, network)
                            THEN Append(deviceChange,
                                        [operation |-> "edit", index |-> idx,
                                         device |-> edit_device(nic_device, network)])
                            ELSE deviceChange
                     /\ nic_devices' = Tail(nic_devices)
                     /\ UNCHANGED <<results, pc>>
           ELSE /\ deviceChange' = deviceChange \o plan_absent(nic_device, idx)
                /\ change_detected' = TRUE
                /\ nic_devices' = Tail(nic_devices)
                /\ UNCHANGED <<results, pc>>
    /\ UNCHANGED <<params, hardware_device, powerState, network_list, idx, task>>

\* what ReconfigVM_Task and wait_for_task can end with
TaskOutcomes == {"success", "error", "InvalidDeviceSpec", "RestrictedVersion"}

\* lines 433-441: the device changes are submitted and the task is awaited
ReconfigVM_Task ==
    /\ pc = "planning" /\ nic_devices = <<>> /\ idx = Len(network_list)
    /\ \E outcome \in TaskOutcomes :
          /\ task' = outcome
          /\ hardware_device' =
                 IF outcome = "success"
                 THEN apply_spec(hardware_device, deviceChange, 1)
                 ELSE hardware_device
          /\ IF outcome = "InvalidDeviceSpec"
             THEN /\ pc' = "failed"
                  /\ results' = fail_json(
                         <<"Failed to configure network adapter on given virtual machine due to invalid device spec : ",
                           backend_msg>>)
             ELSE IF outcome = "RestrictedVersion"
             THEN /\ pc' = "failed"
                  /\ results' = fail_json(
                         <<"Failed to reconfigure virtual machine due to product versioning restrictions: ",
                           backend_msg>>)
             ELSE /\ pc' = "report"
                  /\ UNCHANGED results
    /\ UNCHANGED <<params, powerState, network_list, idx, nic_devices,
                   change_detected, deviceChange>>

\* lines 442-448: the result of a run that submitted
Report ==
    /\ pc = "report"
    /\ IF task = "error"
       THEN /\ results' = [changed |-> changed_result(change_detected),
                           failed |-> TRUE, msg |-> <<backend_msg>>]
            /\ pc' = "failed"
       ELSE /\ results' = [changed |-> changed_result(change_detected),
                           failed |-> FALSE,
                           network_data |-> get_network_facts(hardware_device)]
            /\ pc' = "done"
    /\ UNCHANGED <<params, hardware_device, powerState, network_list, idx,
                   nic_devices, change_detected, deviceChange, task>>

\* ------------------------------------------------------------------ inputs
\* the classes of the devices a machine starts with: two adapter classes and
\* one device that is no adapter
DeviceClasses == {"VirtualE1000e", "VirtualVmxnet3", "VirtualDisk"}

\* the i-th device of a machine before the run: addresses and labels are unique
\* among the adapters of one machine
InitialDevice(i, class) ==
    [type |-> class, key |-> i, label |-> Labels[i], summary |-> "VM Network",
     startConnected |-> TRUE, allowGuestControl |-> TRUE, connected |-> TRUE,
     addressType |-> "assigned", macAddress |-> MacOf(i)]

DeviceLists ==
    UNION {{[i \in 1..n |-> InitialDevice(i, classes[i])] :
                classes \in [1..n -> DeviceClasses]} : n \in 0..MaxDevices}

\* an optional key of an entry: absent, or one of the values
Opt(key, values) == {<<>>} \cup {key :> v : v \in values}

\* present and absent entries over the match keys
MatchEntries ==
    {("state" :> st) @@ m @@ l @@ d @@ ("connected" :> FALSE) :
        st \in {"present", "absent"},
        m \in Opt("mac", {MacOf(1), MacFree}),
        l \in Opt("label", {Labels[2]}),
        d \in Opt("device_type", {"e1000e"})}

\* the connectivity flags an entry may carry
FlagChoices ==
    {<<>>, "start_connected" :> FALSE,
     ("connected" :> TRUE) @@ ("start_connected" :> TRUE)}

\* present entries over the fields an edit compares: matched by address, or
\* all adapters of a class at once
EditEntries ==
    {("state" :> "present") @@ ("mac" :> MacOf(1)) @@ f @@ n @@ a :
        f \in FlagChoices,
        n \in Opt("name", {"VM Network", "Lab Network"}),
        a \in Opt("manual_mac", {MacOf(1), MacFree})}
    \cup
    {("state" :> "present") @@ ("device_type" :> "vmxnet3") @@ f @@ a :
        f \in FlagChoices,
        a \in Opt("manual_mac", {MacOf(1), MacFree})}

\* new entries
NewEntries ==
    {("state" :> "new") @@ ("name" :> "Lab Network") @@ d @@ f @@ m @@ a :
        d \in Opt("device_type", {"e1000e"}),
        f \in {<<>>, "connected" :> FALSE},
        m \in Opt("mac", {MacOf(1)}),
        a \in Opt("manual_mac", {MacFree})}

\* entries that name their network by VLAN
VlanEntries ==
    {("state" :> "new") @@ ("vlan" :> v) @@ sw :
        v \in {[int |-> TRUE, str |-> "10"], [int |-> FALSE, str |-> "pg-prod"],
               [int |-> TRUE, str |-> "99"], [int |-> FALSE, str |-> "10"]},
        sw \in Opt("dvswitch_name", {"dvs1"})}
    \cup
    {[state |-> "new", name |-> "VM Network",
      vlan |-> [int |-> FALSE, str |-> "10"]]}

\* entries the checks of sanitize_network_params and the matcher turn down,
\* and state keywords in another case
OddEntries ==
    { "connected" :> FALSE,
      [state |-> "bogus", mac |-> MacOf(1)],
      [state |-> "new"],
      [state |-> "New", name |-> "VM Network"],
      [state |-> "Present", mac |-> MacOf(1), connected |-> FALSE],
      [state |-> "ABSENT", label |-> Labels[1]],
      [state |-> "present", mac |-> MacOf(1), name |-> "Remote Network"],
      [state |-> "present", mac |-> MacOf(1), name |-> "No Network"],
      [state |-> "present", device_type |-> "e1000x", connected |-> FALSE],
      [state |-> "present", mac |-> MacShort, label |-> Labels[1]],
      [state |-> "present", mac |-> MacShort, manual_mac |-> MacFree],
      [state |-> "present", mac |-> MacOf(1), manual_mac |-> MacShort],
      [state |-> "new", name |-> "VM Network", manual_mac |-> MacShort],
      [state |-> "present", connected |-> FALSE],
      [state |-> "absent"] }

\* the entries the last place of the list is drawn from
Entries == MatchEntries \cup EditEntries \cup NewEntries \cup VlanEntries
           \cup OddEntries

\* the entries the places before the last are drawn from
EarlierEntries ==
    { [state |-> "new", name |-> "VM Network"],
      [state |-> "present", mac |-> MacOf(1), connected |-> TRUE],
      [state |-> "present", mac |-> MacOf(1), connected |-> FALSE] }

NetworkLists ==
    {<<>>} \cup
    UNION {{Append(earlier, last) :
                earlier \in [1..n -> EarlierEntries], last \in Entries} :
           n \in 0..(MaxNetworks - 1)}

Init ==
    /\ params \in [gather_network_facts : BOOLEAN, networks : NetworkLists]
    /\ hardware_device \in DeviceLists
    /\ powerState \in {"poweredOn", "poweredOff", "suspended"}
    /\ network_list = <<>>
    /\ idx = 0
    /\ nic_devices = <<>>
    /\ change_detected = FALSE
    /\ deviceChange = <<>>
    /\ task = "none"
    /\ results = <<>>
    /\ pc = "start"

Next ==
    \/ Sanitize
    \/ GatherFactsOnly
    \/ PlanNetwork
    \/ PlanDevice
    \/ ReconfigVM_Task
    \/ Report

Spec == Init /\ [][Next]_vars

\* ------------------------------------------------- inputs: MAC addresses
\* the most octets a MAC string of the inputs below has
MaxOctets == 7

\* the octets of the address of EXAMPLES, and one more
ExampleOctets ==
    << <<"0", "0">>, <<"5", "0">>, <<"5", "6">>, <<"1", "1">>, <<"2", "2">>,
       <<"3", "3">>, <<"4", "4">>, <<"5", "5">> >>

\* what the third octet of a MAC string may be: lower-case, upper-case and
\* mixed-case hex, a letter that is no hex digit, a single digit
OctetChoices ==
    { <<"5", "6">>, <<"f", "f">>, <<"5", "A">>, <<"a", "B">>, <<"5", "g">>,
      <<"5">> }

\* the delimiters between octets, and what may follow the last octet
DelimiterChoices == {":", "-", "."}
TailChoices == {<<>>, <<"\n">>, <<"x">>}

\* octets k..n of a MAC string, each after its delimiter: d2 before the
\* second octet, d3 before the third, rest before the others
RECURSIVE OctetsFrom(_, _, _, _, _, _)
OctetsFrom(k, n, d2, d3, rest, third) ==
    IF k > n THEN <<>>
    ELSE << (IF k = 2 THEN d2 ELSE IF k = 3 THEN d3 ELSE rest) >>
         \o (IF k = 3 THEN third ELSE ExampleOctets[k])
         \o OctetsFrom(k + 1, n, d2, d3, rest, third)

\* the strings is_valid_mac_addr is given
MacStrings ==
    { ExampleOctets[1] \o OctetsFrom(2, n, d2, d3, rest, third) \o tail :
        n \in 5..MaxOctets, d2 \in DelimiterChoices, d3 \in DelimiterChoices,
        rest \in DelimiterChoices, third \in OctetChoices, tail \in TailChoices }

\* a run over one present entry whose mac, or whose manual_mac, is one of
\* these strings, on a machine with one adapter
InitMac ==
    /\ params \in
          [gather_network_facts : BOOLEAN,
           networks :
              {<<[state |-> "present", mac |-> m, manual_mac |-> MacFree]>> :
                  m \in MacStrings}
              \cup
              {<<[state |-> "present", mac |-> MacOf(1), manual_mac |-> m]>> :
                  m \in MacStrings}]
    /\ hardware_device = <<InitialDevice(1, "VirtualVmxnet3")>>
    /\ powerState \in {"poweredOn", "poweredOff"}
    /\ network_list = <<>>
    /\ idx = 0
    /\ nic_devices = <<>>
    /\ change_detected = FALSE
    /\ deviceChange = <<>>
    /\ task = "none"
    /\ results = <<>>
    /\ pc = "start"

SpecMac == InitMac /\ [][Next]_vars

\* ================================================================ claims
\* the adapters the machine has: its devices of the six adapter classes
AdapterClasses == {nic_device_type[k] : k \in DOMAIN nic_device_type}
Adapters ==
    {hardware_device[j] : j \in {k \in 1..Len(hardware_device) :
                                    hardware_device[k].type \in AdapterClasses}}

\* nothing has been submitted yet: the backend holds the devices it started with
Unsubmitted == task = "none"

\* the entry reconfigures or removes existing adapters
Reconfigures(network) == lower(network.state) \in {"present", "absent"}

\* the operations planned for the i-th entry
OpsOf(i) == {deviceChange[j] : j \in {k \in 1..Len(deviceChange) :
                                         deviceChange[k].index = i}}

\* the i-th entry has been entered and every adapter it matched visited
Finished(i) ==
    \/ idx > i
    \/ idx = i /\ nic_devices = <<>> /\ pc # "failed"

\* the msg of the fail_json that ended the run, <<>> if none did
FailedWith == IF pc = "failed" THEN results.msg ELSE <<>>

\* the adapters still to visit for the entry being planned
Pending == {nic_devices[j] : j \in 1..Len(nic_devices)}

\* C1: a present/absent entry whose mac matches adapter A and whose label
\* matches another adapter B selects A only: the adapters to visit for it and
\* the targets of the operations planned for it are A, never B, and once the
\* entry is finished an operation on A has been planned (the entries of this
\* shape all carry a field that differs, or remove).
C1_MacBeforeLabel ==
    Unsubmitted =>
        \A i \in 1..idx : \A A \in Adapters, B \in Adapters :
            LET network == network_list[i]
            IN  ( /\ Reconfigures(network)
                  /\ "mac" \in DOMAIN network /\ "label" \in DOMAIN network
                  /\ A.macAddress = network.mac
                  /\ B.label = network.label
                  /\ A.key # B.key )
                => /\ idx = i => \A d \in Pending : d.key = A.key
                   /\ \A op \in OpsOf(i) :
                         op.operation # "add" /\ op.device.key = A.key
                   /\ (Finished(i) /\ (lower(network.state) = "absent"
                                       \/ network.connected # A.connected))
                         => \E op \in OpsOf(i) : op.device.key = A.key
                   /\ idx = i =>
                         FailedWith \notin {<<"AdapterNotFound">>,
                                            <<"MissingMatchKey">>}

\* C1 witness: an entry of that shape is finished with its operation on A
C1_Witness ==
    /\ Unsubmitted
    /\ \E i \in 1..idx : \E A \in Adapters, B \in Adapters :
           /\ Reconfigures(network_list[i])
           /\ "mac" \in DOMAIN network_list[i]
           /\ "label" \in DOMAIN network_list[i]
           /\ A.macAddress = network_list[i].mac
           /\ B.label = network_list[i].label
           /\ A.key # B.key
           /\ Finished(i)
           /\ \E op \in OpsOf(i) : op.device.key = A.key

\* the adapters a label names, and the adapters of a device_type
AdaptersLabelled(network) ==
    IF "label" \in DOMAIN network
    THEN {d \in Adapters : d.label = network.label} ELSE {}
AdaptersOfType(network) ==
    IF "device_type" \in DOMAIN network
    THEN {d \in Adapters : d.type = nic_device_type[network.device_type]}
    ELSE {}

\* the i-th entry is present/absent and has a mac that no adapter has
MacUnmatched(i) ==
    /\ Reconfigures(network_list[i])
    /\ "mac" \in DOMAIN network_list[i]
    /\ \A d \in Adapters : d.macAddress # network_list[i].mac

\* C2 as stated: an entry whose mac matches no adapter has an empty match
\* result whatever its label and device_type: the run fails AdapterNotFound
\* on it and no operation is planned for it.
C2_NoFallThrough ==
    Unsubmitted =>
        \A i \in 1..idx :
            MacUnmatched(i)
            => /\ idx = i => (nic_devices = <<>>
                              /\ FailedWith = <<"AdapterNotFound">>)
               /\ OpsOf(i) = {}

\* C2 amended: an entry whose mac matches no adapter falls through to its
\* label and then to its device_type: the adapters selected are the one the
\* label names or, if there is none, those of the device_type; the run fails
\* AdapterNotFound on the entry, with no operation planned for it, exactly
\* when both are empty.
C2_FallThrough ==
    Unsubmitted =>
        \A i \in 1..idx :
            LET network == network_list[i]
                chosen == IF AdaptersLabelled(network) # {}
                          THEN AdaptersLabelled(network)
                          ELSE AdaptersOfType(network)
            IN  MacUnmatched(i)
                => /\ OpsOf(i) # {} => chosen # {}
                   /\ \A op \in OpsOf(i) :
                         \E d \in chosen : d.key = op.device.key
                   /\ idx = i =>
                         /\ \A d \in Pending : \E c \in chosen : c.key = d.key
                         /\ (FailedWith = <<"AdapterNotFound">>) <=>
                                (pc = "failed" /\ chosen = {})
                         /\ chosen = {} => pc = "failed"
                   /\ (Finished(i) /\ lower(network.state) = "absent")
                         => \A c \in chosen :
                                \E op \in OpsOf(i) : op.device.key = c.key

\* C2 witness: the mac matched nothing and the adapter of the label was
\* operated on instead
C2_Witness ==
    /\ Unsubmitted
    /\ \E i \in 1..idx :
           /\ MacUnmatched(i)
           /\ Finished(i)
           /\ \E op \in OpsOf(i) :
                  \E d \in AdaptersLabelled(network_list[i]) :
                      d.key = op.device.key

\* the adapter with that device key, as the backend holds it
AdapterOfKey(key) == CHOOSE d \in Adapters : d.key = key

\* every field the entry specifies has the value the adapter has
SameAsAdapter(network, d) ==
    /\ "start_connected" \in DOMAIN network
           => network.start_connected = d.startConnected
    /\ "connected" \in DOMAIN network => network.connected = d.connected
    /\ "name" \in DOMAIN network => network.name = d.summary
    /\ "manual_mac" \in DOMAIN network => network.manual_mac = d.macAddress

\* the planning is over and the operation list is about to be submitted
AboutToSubmit ==
    pc = "planning" /\ nic_devices = <<>> /\ idx = Len(network_list)

\* C3 as stated: only effective edits are submitted.  Whatever precedes a
\* present entry in the list, if every field it specifies equals the matched
\* adapter's current value, the operation list handed to the backend holds no
\* Edit of that adapter for that entry.
C3_OnlyEffectiveEdits ==
    AboutToSubmit =>
        \A j \in 1..Len(deviceChange) :
            deviceChange[j].operation = "edit"
            => ~SameAsAdapter(network_list[deviceChange[j].index],
                              AdapterOfKey(deviceChange[j].device.key))

\* the entries of the list are all present, each with a mac that an adapter
\* has, and each specifying only values that adapter already has
AllUnchangedByMac(networks) ==
    /\ Len(networks) > 0
    /\ \A i \in 1..Len(networks) :
           /\ "state" \in DOMAIN networks[i]
           /\ lower(networks[i].state) = "present"
           /\ "mac" \in DOMAIN networks[i]
           /\ \E d \in Adapters :
                  /\ d.macAddress = networks[i].mac
                  /\ SameAsAdapter(networks[i], d)

\* the run has ended (exit_json or fail_json)
Ended == pc \in {"done", "failed"}

\* the changed flag of the result, FALSE where a fail_json result has none
ReportedChanged == "changed" \in DOMAIN results /\ results.changed

\* C4: a run over a list of present entries, each matched by mac to an adapter
\* that already has every value the entry specifies, plans no operation and
\* never sets the change flag; its operation list is still empty when the run
\* ends, and it ends with changed=false.  (The entries are compared with the
\* adapters as they are before anything is submitted; an empty operation list
\* leaves them so.)
C4_NoOpRunUnchanged ==
    /\ (Unsubmitted /\ AllUnchangedByMac(params.networks))
           => (deviceChange = <<>> /\ ~change_detected)
    /\ (deviceChange = <<>> /\ AllUnchangedByMac(params.networks))
           => /\ ~change_detected
              /\ Ended => ~ReportedChanged
              /\ pc = "done" => results.changed = FALSE

\* C4 witness: such a run of two entries, one of them specifying all four
\* fields, has gone through planning and submission and ended
C4_Witness ==
    /\ AllUnchangedByMac(params.networks)
    /\ Len(params.networks) = 2
    /\ \E i \in 1..2 :
           {"connected", "start_connected", "name", "manual_mac"}
               \subseteq DOMAIN params.networks[i]
    /\ pc = "done" /\ task = "success"
    /\ results.changed = FALSE

\* C5 as stated: in facts-only mode the desired list is ignored entirely.  A
\* run that was asked for facts only ends successfully, with changed=false
\* and the facts of the adapters, whatever the list holds.
C5_FactsOnlyIgnoresList ==
    (params.gather_network_facts /\ Ended)
    => /\ pc = "done"
       /\ results.failed = FALSE
       /\ results.changed = FALSE
       /\ results.network_data = get_network_facts(hardware_device)

\* the run was asked for facts only, or was given no entry
FactsOnlyRun == params.gather_network_facts \/ Len(params.networks) = 0

\* C6: a run that was asked for facts only, or given an empty list, never
\* enters planning and never submits: no entry is entered, no operation is
\* planned, the change flag stays unset, the devices of the machine stay as
\* they are, and the step after a passed sanitize is the facts-only result,
\* which has changed=false and the facts of the adapters.  (A list that
\* sanitize_network_params turns down ends such a run in fail_json before the
\* branch, with no changed in the result: that is claim C5.)
C6_FactsOnlyNeverSubmits ==
    /\ [](FactsOnlyRun =>
            /\ pc \in {"start", "facts", "done", "failed"}
            /\ idx = 0 /\ nic_devices = <<>>
            /\ task = "none"
            /\ deviceChange = <<>> /\ ~change_detected
            /\ ~ReportedChanged
            /\ pc = "done" =>
                  /\ results.changed = FALSE /\ results.failed = FALSE
                  /\ results.network_data = get_network_facts(hardware_device))
    /\ [][FactsOnlyRun =>
            /\ hardware_device' = hardware_device
            /\ pc = "start" => pc' \in {"facts", "failed"}
            /\ pc = "facts" => pc' = "done"]_vars

\* C6 witness: a run asked for facts only, over a list that is not empty, has
\* ended with the facts
C6_Witness ==
    /\ params.gather_network_facts /\ Len(params.networks) > 0
    /\ pc = "done" /\ results.changed = FALSE

\* the checks an entry can fail, stated on the entry itself
NetworkNames ==
    {content_networks[j].name :
        j \in {k \in 1..Len(content_networks) :
                  content_networks[k].datacenter = datacenter}}
Invalid(network) ==
    \/ "state" \notin DOMAIN network
    \/ network.state \notin {"new", "present", "absent", "New", "Present", "ABSENT"}
    \/ "name" \in DOMAIN network /\ network.name \notin NetworkNames
    \/ /\ "device_type" \in DOMAIN network
       /\ network.device_type \notin DOMAIN nic_device_type
    \/ "mac" \in DOMAIN network /\ Len(network.mac) < 17
    \/ "manual_mac" \in DOMAIN network /\ Len(network.manual_mac) < 17
Unmatchable(network) ==
    /\ ~Invalid(network)
    /\ network.state \notin {"new", "New"}
    /\ "mac" \in DOMAIN network
           => \A d \in Adapters : d.macAddress # network.mac
    /\ AdaptersLabelled(network) = {}
    /\ AdaptersOfType(network) = {}

\* the msgs of the failures found before anything is submitted
LocalErrors ==
    {<<m>> : m \in {"InvalidState", "MissingNetworkReference", "NetworkNotFound",
                    "VlanNotFound", "InvalidDeviceType", "InvalidMacSyntax",
                    "KeyError", "MissingMatchKey", "AdapterNotFound",
                    "PowerStateViolation"}}

\* C7: fail-fast batch.  A list with an entry that fails validation or
\* resolution is never planned or submitted; a list with an entry that has no
\* match key or matches no adapter never reaches the submission (unless the
\* run gathers facts only and plans nothing); every run that fails with a
\* validation, resolution, matching or planning error has submitted nothing,
\* also when operations were planned before the bad entry; a failed run takes
\* no further step; and the devices of the machine change only by a submission.
C7_FailFast ==
    /\ []((\E i \in 1..Len(params.networks) : Invalid(params.networks[i]))
             => /\ pc \in {"start", "failed"}
                /\ task = "none" /\ deviceChange = <<>>)
    /\ []((Unsubmitted /\ ~FactsOnlyRun
           /\ \E i \in 1..Len(params.networks) : Unmatchable(params.networks[i]))
             => ~AboutToSubmit)
    /\ [](FailedWith \in LocalErrors
             => /\ task = "none"
                /\ results.failed
                /\ "network_data" \notin DOMAIN results)
    /\ [][/\ pc # "failed"
          /\ task' = "none" => hardware_device' = hardware_device]_vars

\* C7 witness: the second entry failed after the first had planned an
\* operation that changes something
C7_Witness ==
    /\ FailedWith \in LocalErrors
    /\ idx = 2 /\ deviceChange # <<>> /\ change_detected
    /\ task = "none"

\* the entry being planned asks the adapter at the head of nic_devices for an
\* address it does not have
MacChangePending ==
    /\ pc = "planning" /\ nic_devices # <<>>
    /\ lower(network_list[idx].state) = "present"
    /\ "manual_mac" \in DOMAIN network_list[idx]
    /\ Head(nic_devices).macAddress # network_list[idx].manual_mac

OpPlacesOf(i) == {j \in 1..Len(deviceChange) : deviceChange[j].index = i}

\* C9: every new entry that has been entered has planned exactly one
\* operation, an Add, and set the change flag (a run that ends done reports
\* changed=true), whatever devices the machine has; without a device_type the
\* planned class is VMXNET3, without a connected flag the adapter is
\* connected, without a start_connected flag it starts connected.
C9_NewPlansOneAdd ==
    \A i \in 1..idx :
        lower(network_list[i].state) = "new"
        => /\ Cardinality(OpPlacesOf(i)) = 1
           /\ change_detected
           /\ pc = "done" => results.changed = TRUE
           /\ \A j \in OpPlacesOf(i) :
                 LET op == deviceChange[j]
                 IN  /\ op.operation = "add"
                     /\ "device_type" \notin DOMAIN network_list[i]
                            => op.device.type = "VirtualVmxnet3"
                     /\ "device_type" \in DOMAIN network_list[i]
                            => op.device.type =
                                   nic_device_type[network_list[i].device_type]
                     /\ "connected" \notin DOMAIN network_list[i]
                            => op.device.connected = TRUE
                     /\ "start_connected" \notin DOMAIN network_list[i]
                            => op.device.startConnected = TRUE

\* C9 witness: on a machine that has adapters, a new entry without device
\* type and flags planned its VMXNET3 Add and the run ended changed
C9_Witness ==
    /\ pc = "done" /\ results.changed = TRUE
    /\ Len(hardware_device) > 1
    /\ \E i \in 1..idx :
           /\ lower(network_list[i].state) = "new"
           /\ DOMAIN network_list[i] \cap
                  {"device_type", "connected", "start_connected"} = {}
           /\ \E j \in OpPlacesOf(i) :
                  /\ deviceChange[j].operation = "add"
                  /\ deviceChange[j].device.type = "VirtualVmxnet3"

\* C10 as stated: the mac of a new entry is the address to assign.  The Add
\* is manual with that mac verbatim if the entry has a mac, generated if not.
C10_MacKeyIsAddress ==
    \A i \in 1..idx :
        lower(network_list[i].state) = "new"
        => \A j \in OpPlacesOf(i) :
               IF "mac" \in DOMAIN network_list[i]
               THEN /\ deviceChange[j].device.addressType = "manual"
                    /\ deviceChange[j].device.macAddress = network_list[i].mac
               ELSE deviceChange[j].device.addressType = "generated"

\* C10 amended: the address to assign is the manual_mac of the entry.  The
\* Add is manual with the manual_mac verbatim if the entry has one, and
\* generated, with no address, if it has none; a mac of the entry plays no
\* part.
C10_ManualMacIsAddress ==
    \A i \in 1..idx :
        lower(network_list[i].state) = "new"
        => /\ OpPlacesOf(i) # {}
           /\ \A j \in OpPlacesOf(i) :
                 IF "manual_mac" \in DOMAIN network_list[i]
                 THEN /\ deviceChange[j].device.addressType = "manual"
                      /\ deviceChange[j].device.macAddress =
                             network_list[i].manual_mac
                 ELSE /\ deviceChange[j].device.addressType = "generated"
                      /\ deviceChange[j].device.macAddress = <<>>

\* C10 witness: a new entry with a mac and another manual_mac planned a
\* manual Add with the manual_mac
C10_Witness ==
    \E i \in 1..idx :
        /\ lower(network_list[i].state) = "new"
        /\ "mac" \in DOMAIN network_list[i]
        /\ "manual_mac" \in DOMAIN network_list[i]
        /\ network_list[i].mac # network_list[i].manual_mac
        /\ \E j \in OpPlacesOf(i) :
               /\ deviceChange[j].device.addressType = "manual"
               /\ deviceChange[j].device.macAddress = network_list[i].manual_mac

\* the adapters an entry selects, in the order they are visited
MatchedBy(network) == MatchDevices(hardware_device, network)

\* how many of the adapters the i-th entry selected have been visited
VisitedOf(i) ==
    IF idx = i THEN Len(MatchedBy(network_list[i])) - Len(nic_devices)
    ELSE Len(MatchedBy(network_list[i]))

\* C11: for every absent entry and every adapter it matched and visited, the
\* operation list holds exactly one operation of that entry on that adapter, a
\* Remove of the adapter as it is; the entry plans no Edit and no Add, the
\* change flag is set as soon as one adapter is visited, and a run that ends
\* done with a Remove in its list reports changed=true.
C11_AbsentPlansRemoves ==
    /\ Unsubmitted =>
          \A i \in 1..idx :
              lower(network_list[i].state) = "absent"
              => /\ (pc # "failed" \/ idx > i)
                       => Cardinality(OpPlacesOf(i)) = VisitedOf(i)
                 /\ \A j \in OpPlacesOf(i) : deviceChange[j].operation = "remove"
                 /\ (pc # "failed" \/ idx > i) =>
                       \A k \in 1..VisitedOf(i) :
                           LET d == MatchedBy(network_list[i])[k]
                           IN  Cardinality({j \in OpPlacesOf(i) :
                                               deviceChange[j].device = d}) = 1
                 /\ OpPlacesOf(i) # {} => change_detected
                 /\ (pc = "failed" /\ idx = i) => OpPlacesOf(i) = {}
    /\ (pc = "done" /\ \E j \in 1..Len(deviceChange) :
                           deviceChange[j].operation = "remove")
          => results.changed = TRUE

\* C11 witness: an absent entry matched two adapters by device_type, planned
\* their two Removes, and the run ended changed
C11_Witness ==
    /\ pc = "done" /\ results.changed = TRUE
    /\ \E i \in 1..idx :
           /\ lower(network_list[i].state) = "absent"
           /\ Cardinality(OpPlacesOf(i)) = 2
           /\ \A j \in OpPlacesOf(i) : deviceChange[j].operation = "remove"

\* the places of the device list that hold a device of the entry's device_type
TypePlaces(network) ==
    {k \in 1..Len(hardware_device) :
        hardware_device[k].type = nic_device_type[network.device_type]}

\* the place of the device list that holds the device with that key
PlaceOfKey(key) ==
    CHOOSE k \in 1..Len(hardware_device) : hardware_device[k].key = key

\* the i-th entry is a present one that has a device_type and no mac and no
\* label, and a value that differs on every adapter of that type
TypeOnlyDiffering(i) ==
    LET network == network_list[i]
    IN  /\ lower(network.state) = "present"
        /\ "device_type" \in DOMAIN network
        /\ "mac" \notin DOMAIN network /\ "label" \notin DOMAIN network
        /\ \A k \in TypePlaces(network) :
               ~SameAsAdapter(network, hardware_device[k])

\* C12: a present entry that has only a device_type, and a value that differs
\* on each of the N adapters of that type, has planned exactly N operations
\* once it is finished: all Edits, one for each adapter of the type and for no
\* other device, in the order of the device list.  The run fails on such an
\* entry only if N = 0 (AdapterNotFound) or if it asks for another address on
\* a machine that is not powered off (PowerStateViolation).
C12_EditPerAdapterOfType ==
    Unsubmitted =>
        \A i \in 1..idx :
            TypeOnlyDiffering(i)
            => LET network == network_list[i]
                   N == Cardinality(TypePlaces(network))
               IN  /\ \A j \in OpPlacesOf(i) :
                         /\ deviceChange[j].operation = "edit"
                         /\ PlaceOfKey(deviceChange[j].device.key)
                                \in TypePlaces(network)
                   /\ \A j1 \in OpPlacesOf(i), j2 \in OpPlacesOf(i) :
                         j1 < j2 => PlaceOfKey(deviceChange[j1].device.key)
                                        < PlaceOfKey(deviceChange[j2].device.key)
                   /\ Finished(i) => Cardinality(OpPlacesOf(i)) = N
                   /\ (idx = i /\ pc = "failed")
                         => \/ N = 0 /\ FailedWith = <<"AdapterNotFound">>
                            \/ /\ FailedWith = <<"PowerStateViolation">>
                               /\ "manual_mac" \in DOMAIN network
                               /\ powerState # "poweredOff"

\* C12 witness: such an entry is finished on a machine with two adapters of
\* the type, with its two Edits
C12_Witness ==
    /\ Unsubmitted
    /\ \E i \in 1..idx :
           /\ TypeOnlyDiffering(i)
           /\ Finished(i)
           /\ Cardinality(TypePlaces(network_list[i])) = 2
           /\ Cardinality(OpPlacesOf(i)) = 2

\* the entry is a present or absent one with no mac, no label and no device_type
Keyless(network) ==
    /\ Reconfigures(network)
    /\ DOMAIN network \cap {"mac", "label", "device_type"} = {}

\* C13: a present or absent entry with none of mac, label and device_type
\* fails the run with MissingMatchKey as soon as it is entered: no operation
\* is planned for it, nothing has been submitted, and a list that holds such an
\* entry never gets to the submission.
C13_MissingMatchKey ==
    /\ \A i \in 1..idx :
           Keyless(network_list[i])
           => /\ idx = i
              /\ pc = "failed"
              /\ results = [failed |-> TRUE, msg |-> <<"MissingMatchKey">>]
              /\ nic_devices = <<>>
              /\ OpPlacesOf(i) = {}
              /\ task = "none"
    /\ (\E i \in 1..Len(network_list) : Keyless(network_list[i]))
           => task = "none" /\ ~AboutToSubmit

\* C13 witness: the second entry had no match key, after a first entry that
\* had planned an operation
C13_Witness ==
    /\ idx = 2 /\ Keyless(network_list[2])
    /\ FailedWith = <<"MissingMatchKey">>
    /\ deviceChange # <<>>

\* the entry is a present or absent one with exactly one match key, and no
\* adapter of the machine has that mac, that label, or that device_type
SingleKeyUnmatched(network) ==
    /\ Reconfigures(network)
    /\ Cardinality(DOMAIN network \cap {"mac", "label", "device_type"}) = 1
    /\ "mac" \in DOMAIN network
           => \A d \in Adapters : d.macAddress # network.mac
    /\ "label" \in DOMAIN network => AdaptersLabelled(network) = {}
    /\ "device_type" \in DOMAIN network => AdaptersOfType(network) = {}

\* C14: while nothing has been submitted, a present or absent entry whose only
\* match key yields no adapter fails the run with AdapterNotFound as soon as
\* it is entered, with no operation planned for it; a list that holds such an
\* entry never gets to the submission.
C14_AdapterNotFound ==
    Unsubmitted =>
        /\ \A i \in 1..idx :
               SingleKeyUnmatched(network_list[i])
               => /\ idx = i
                  /\ pc = "failed"
                  /\ results = [failed |-> TRUE, msg |-> <<"AdapterNotFound">>]
                  /\ nic_devices = <<>>
                  /\ OpPlacesOf(i) = {}
        /\ (\E i \in 1..Len(network_list) :
                SingleKeyUnmatched(network_list[i]))
               => ~AboutToSubmit

\* C14 witness: an absent entry whose mac no adapter has failed the run on a
\* machine that has adapters
C14_Witness ==
    /\ FailedWith = <<"AdapterNotFound">>
    /\ task = "none"
    /\ Adapters # {}
    /\ lower(network_list[idx].state) = "absent"
    /\ DOMAIN network_list[idx] \cap {"mac", "label", "device_type"} = {"mac"}

\* the operation is an Add, a Remove, or the Edit of an adapter on which a
\* value of its entry differs (the adapters as they are before a submission)
Effective(op) ==
    \/ op.operation \in {"add", "remove"}
    \/ /\ op.operation = "edit"
       /\ ~SameAsAdapter(network_list[op.index], AdapterOfKey(op.device.key))

\* the operation list holds an effective operation
HasEffective == \E j \in 1..Len(deviceChange) : Effective(deviceChange[j])

\* C15: all through planning the change flag is set exactly when the
\* operation list holds an effective operation; the submission and the report
\* leave the flag and the list as planning left them; a run that ends done
\* after a submission reports that flag as changed, and a run that ends done
\* without one submitted no operation and reports changed=false.
C15_ChangedIffEffective ==
    /\ [](pc = "planning" => (change_detected <=> HasEffective))
    /\ [][(pc \in {"planning", "report"} /\ pc' \in {"report", "done"})
             => (change_detected' = change_detected
                 /\ deviceChange' = deviceChange)]_vars
    /\ [](pc = "done" =>
             /\ task \in {"none", "success"}
             /\ task = "success" => results.changed = change_detected
             /\ task = "none" => deviceChange = <<>> /\ results.changed = FALSE)

\* C15 witness: a run whose list held an Edit was submitted and ended done
\* with changed=true
C15_Witness ==
    /\ pc = "done" /\ task = "success"
    /\ results.changed = TRUE
    /\ \E j \in 1..Len(deviceChange) : deviceChange[j].operation = "edit"

\* the submission failed: a fault was raised or the task ended in error
SubmissionFailed == task \in {"error", "InvalidDeviceSpec", "RestrictedVersion"}

HexDigitAnyCase == HexDigit \cup {"A", "B", "C", "D", "E", "F"}
WellFormedMac(m) ==
    /\ Len(m) = 17
    /\ \A i \in 1..17 : i % 3 # 0 => m[i] \in HexDigitAnyCase
    /\ m[3] \in {":", "-"}
    /\ \A i \in {6, 9, 12, 15} : m[i] = m[3]

\* the addresses the entries of the run carry
GivenMacs ==
    {params.networks[i][k] :
        i \in 1..Len(params.networks), k \in {"mac", "manual_mac"}}

\* C17 as stated: is_valid_mac_addr accepts a string if and only if it is six
\* two-digit hex octets joined by one consistent delimiter, so the run over an
\* entry with such strings fails with InvalidMacSyntax exactly when one of
\* them is not of that form.
C17_ValidMacIff ==
    pc # "start" =>
        /\ \A m \in GivenMacs : is_valid_mac_addr(m) <=> WellFormedMac(m)
        /\ (\E m \in GivenMacs : ~WellFormedMac(m))
               <=> FailedWith = <<"InvalidMacSyntax">>

\* the places of the device list that hold an adapter
AdapterPlaces ==
    {k \in 1..Len(hardware_device) : hardware_device[k].type \in AdapterClasses}

\* C18: the facts of a result are keyed by exactly 0..n-1, n being the number
\* of devices of the six adapter classes in the device list they were read
\* from; the adapter that has r adapters before it in the list is the one
\* described at index r, so devices of another class take no index.
C18_FactsIndexedFromZero ==
    pc = "done" =>
        LET facts == results.network_data
            n == Cardinality(AdapterPlaces)
        IN  /\ DOMAIN facts = 0..(n - 1)
            /\ \A k \in AdapterPlaces :
                  LET r == Cardinality({j \in AdapterPlaces : j < k})
                  IN  /\ facts[r].label = hardware_device[k].label
                      /\ facts[r].mac_addr = hardware_device[k].macAddress
                      /\ facts[r].name = hardware_device[k].summary
                      /\ facts[r].device_type = nic_type_of(hardware_device[k])

\* C18 witness: the facts of a machine whose first device is no adapter and
\* whose second and third are: indices 0 and 1
C18_Witness ==
    /\ pc = "done"
    /\ Len(hardware_device) = 3
    /\ AdapterPlaces = {2, 3}
    /\ DOMAIN results.network_data = {0, 1}

\* the run asks for one adapter to be added on a network it names
OneNewRun ==
    /\ ~params.gather_network_facts
    /\ Len(params.networks) = 1
    /\ "state" \in DOMAIN params.networks[1]
    /\ lower(params.networks[1].state) = "new"
    /\ "name" \in DOMAIN params.networks[1]
    /\ "vlan" \notin DOMAIN params.networks[1]

\* C19: a run over one new entry naming network N, on a machine without
\* adapters.  Planning ends with one operation, the Add of an adapter on N;
\* a successful submission of it leaves the machine with one adapter, on N,
\* and goes on to the report; the run then ends done with changed=true,
\* failed=false and the facts of the devices as the submission left them:
\* one entry, at index 0, whose name is N.  Unless the entry is turned down by
\* sanitize_network_params the run fails only if the submission does.
C19_EndToEndAdd ==
    /\ []((OneNewRun /\ AboutToSubmit /\ Adapters = {})
             => /\ Len(deviceChange) = 1
                /\ deviceChange[1].operation = "add"
                /\ deviceChange[1].device.summary = params.networks[1].name
                /\ change_detected)
    /\ [][(OneNewRun /\ Adapters = {} /\ task = "none" /\ task' = "success")
             => /\ pc = "planning" /\ pc' = "report"
                /\ Cardinality(Adapters') = 1
                /\ \A d \in Adapters' : d.summary = params.networks[1].name]_vars
    /\ [][(OneNewRun /\ pc = "report" /\ task = "success")
             => /\ pc' = "done"
                /\ hardware_device' = hardware_device
                /\ results'.network_data = get_network_facts(hardware_device)]_vars
    /\ []((OneNewRun /\ pc = "done" /\ Cardinality(Adapters) = 1)
             => /\ task = "success"
                /\ results.changed = TRUE /\ results.failed = FALSE
                /\ DOMAIN results.network_data = {0}
                /\ results.network_data[0].name = params.networks[1].name)
    /\ []((OneNewRun /\ pc = "failed")
             => \/ SubmissionFailed
                \/ idx = 0 /\ Invalid(params.networks[1]))

\* C19 witness: the run over one entry naming 'Lab Network' ended done on a
\* machine whose only other device is no adapter
C19_Witness ==
    /\ OneNewRun /\ pc = "done" /\ task = "success"
    /\ params.networks[1].name = "Lab Network"
    /\ Len(hardware_device) = 2 /\ AdapterPlaces = {2}
    /\ results.changed = TRUE
    /\ DOMAIN results.network_data = {0}
    /\ results.network_data[0].name = "Lab Network"

\* the first entry of the list has a mac that is no six octets, and nothing
\* else that sanitize_network_params turns down
BadMacFirst ==
    /\ Len(params.networks) > 0
    /\ LET network == params.networks[1]
       IN  /\ "state" \in DOMAIN network
           /\ network.state \in valid_state
           /\ network.state = "new" =>
                  "name" \in DOMAIN network \/ "vlan" \in DOMAIN network
           /\ "name" \in DOMAIN network => network.name \in NetworkNames
           /\ "vlan" \notin DOMAIN network
           /\ "device_type" \in DOMAIN network
                  => network.device_type \in DOMAIN nic_device_type
           /\ "mac" \in DOMAIN network
           /\ ~WellFormedMac(network.mac)

\* C20 as stated: an entry whose mac is present and malformed fails the run
\* with InvalidMacSyntax, a failed result whose msg names the value, whether
\* or not the entry has a manual_mac, and before anything is submitted.
C20_BadMacFailsStructured ==
    (BadMacFirst /\ pc # "start")
    => /\ pc = "failed"
       /\ results = [failed |-> TRUE, msg |-> <<"InvalidMacSyntax">>]
       /\ task = "none" /\ deviceChange = <<>>

\* the distributed portgroups of the datacenter, in scan order
PortgroupsInScope ==
    LET InScope(x) == x.datacenter = datacenter
    IN  SelectSeq(content_dvps, InScope)

\* the three rules of the resolver, each on one portgroup
RuleVlanId(dvp, network) ==
    dvp.vlanId # "none" /\ dvp.vlanId = network.vlan.str
RuleSwitchAndName(dvp, network) ==
    /\ "dvswitch_name" \in DOMAIN network
    /\ dvp.dvswitch = network.dvswitch_name
    /\ ~network.vlan.int /\ dvp.name = network.vlan.str
RuleName(dvp, network) ==
    ~network.vlan.int /\ dvp.name = network.vlan.str

\* the name of the portgroup the rules pick when they are taken in order of
\* precedence: the first portgroup the VLAN ID rule accepts; if there is none,
\* the first the switch-and-name rule accepts; if there is none, the first the
\* name rule accepts; <<>> if no portgroup is accepted by any rule
PickedByRulePrecedence(network) ==
    LET ById(dvp) == RuleVlanId(dvp, network)
        BySwitch(dvp) == RuleSwitchAndName(dvp, network)
        ByName(dvp) == RuleName(dvp, network)
        a == SelectSeq(PortgroupsInScope, ById)
        b == SelectSeq(PortgroupsInScope, BySwitch)
        c == SelectSeq(PortgroupsInScope, ByName)
    IN  IF a # <<>> THEN <<a[1].name>>
        ELSE IF b # <<>> THEN <<b[1].name>>
        ELSE IF c # <<>> THEN <<c[1].name>>
        ELSE <<>>

\* the entry has a vlan and no name, and nothing that the checks before and
\* after the resolver turn down
VlanOnly(network) ==
    /\ "state" \in DOMAIN network /\ network.state \in valid_state
    /\ "vlan" \in DOMAIN network /\ "name" \notin DOMAIN network
    /\ DOMAIN network \cap {"device_type", "mac", "manual_mac"} = {}

\* C21 as stated: sanitize_network_params gives the first entry of the list,
\* if it has a vlan and no name, the name of the portgroup picked by rule
\* precedence, and fails the run with VlanNotFound if the rules pick none.
C21_VlanByRulePrecedence ==
    [][(pc = "start" /\ Len(params.networks) > 0
        /\ VlanOnly(params.networks[1]))
          => LET picked == PickedByRulePrecedence(params.networks[1])
             IN  IF picked = <<>>
                 THEN /\ pc' = "failed"
                      /\ results' = [failed |-> TRUE, msg |-> <<"VlanNotFound">>]
                 ELSE /\ "name" \in DOMAIN params'.networks[1]
                      /\ params'.networks[1].name = picked[1]]_vars

C23_FlagIffOperations ==
    /\ [](FailedWith # <<"PowerStateViolation">>
             => (change_detected <=> deviceChange # <<>>))
    /\ [][change_detected => change_detected']_vars
    /\ [][/\ Len(deviceChange') >= Len(deviceChange)
          /\ SubSeq(deviceChange', 1, Len(deviceChange)) = deviceChange]_vars

\* C23 witness: two entries were processed, the flag is set and the list
\* holds their two operations; planning is over
C23_Witness ==
    /\ AboutToSubmit /\ idx = 2
    /\ change_detected /\ Len(deviceChange) = 2

====
